---- MODULE Spec2Model ----
(***************************************************************************)
(* A model of the pivot data access layer: the Model mapper (Migrate,      *)
(* Create, Update, Find), Collection.MakeRecord, the HTTP query/aggregate/ *)
(* list handlers and the SqlBackend scalar aggregates.                     *)
(*                                                                         *)
(* Every operation is one action.  The backend is an external collaborator *)
(* reached through an interface: the outcome of each of its calls is drawn *)
(* from the outcomes the interface allows, and the calls an operation      *)
(* makes are recorded, in order, in the variable calls.                    *)
(***************************************************************************)
EXTENDS Integers, Sequences, FiniteSets, TLC

VARIABLES
    backend,    \* the concrete type of the backend the server and the Model use
    model,      \* Model.collection: the collection the Model was built for
    registry,   \* backend: collection name -> <<>> (absent) or <<collection>>
    stored,     \* backend: the record ids that exist
    op,         \* the operation that ran last, with its inputs
    calls,      \* the backend/collaborator calls that operation made, in order
    ret,        \* what that operation returned
    resp,       \* the HTTP responses that operation wrote, in order
    upserts     \* concurrent upserts: caller -> how far its call has got

vars == <<backend, model, registry, stored, op, calls, ret, resp, upserts>>

----------------------------------------------------------------------------
(* Bounds *)

MaxFields == 2      \* longest field list of a collection
MaxValue == 1       \* largest field value
MaxParams == 1      \* most query-string parameters in one request
MaxSegments == 3    \* most ':'-separated collections in one path segment
MaxPosted == 2      \* most collections in the body of one POST /api/schema
MaxAggFields == 2   \* most fields in one aggregate request
MaxRows == 2        \* most rows in the result of one statement

----------------------------------------------------------------------------
(* Values shared by all operations *)

Names == {"a", "b"}
ModelName == "a"    \* the collection the Model is for
FieldNames == {"id", "key"}
Types == {"int", "str"}

\* A pointer is <<>> (nil) or <<x>>.
NilPtr == <<>>
Ptr(x) == <<x>>
Deref(p) == p[1]

\* error values; NoErr is Go's nil error
NoErr == [kind |-> "nil"]
CollectionNotFound(name) == [kind |-> "collection_not_found", name |-> name]
BackendFailure(what) == [kind |-> "backend_failure", what |-> what]
ExistsErr(name) == [kind |-> "exists", name |-> name]
Panic == [kind |-> "panic"]

\* dal.IsCollectionNotFoundErr
IsCollectionNotFoundErr(err) == err.kind = "collection_not_found"

RECURSIVE SeqsUpTo(_, _)
\* all sequences over S of length <= n
SeqsUpTo(S, n) ==
    IF n = 0 THEN {<<>>}
    ELSE LET shorter == SeqsUpTo(S, n - 1)
         IN  shorter \cup {Append(s, x) : s \in {t \in shorter : Len(t) = n - 1}, x \in S}

Range(s) == {s[i] : i \in 1..Len(s)}

\* dal.Field, reduced to the attributes Diff compares
Fields == [Name : FieldNames, Type : Types]

\* field lists with unique field names
FieldLists ==
    {fl \in SeqsUpTo(Fields, MaxFields) :
        \A i, j \in 1..Len(fl) : fl[i].Name = fl[j].Name => i = j}

\* dal.DefaultIdentityField
DefaultIdentityField == "id"

\* dal.NewCollection
NewCollection(name) ==
    [Name |-> name, Fields |-> <<>>, IdentityField |-> DefaultIdentityField,
     IndexName |-> "", IndexCompoundFields |-> <<>>, IndexCompoundFieldJoiner |-> ""]

\* dal.Collection
Collections ==
    [Name : Names, Fields : FieldLists, IdentityField : FieldNames,
     IndexName : {""}, IndexCompoundFields : {<<>>}, IndexCompoundFieldJoiner : {""}]

----------------------------------------------------------------------------
(* The backend (backends.Backend): an interface, implemented outside.      *)
(* fail = TRUE is a failure of the backend itself (connection, I/O).       *)

GetCollection(reg, name, fail) ==
    IF fail THEN [c |-> NilPtr, err |-> BackendFailure("GetCollection")]
    ELSE IF name \notin DOMAIN reg \/ reg[name] = NilPtr THEN [c |-> NilPtr, err |-> CollectionNotFound(name)]
    ELSE [c |-> reg[name], err |-> NoErr]

\* stored is what the backend keeps for the collection: its own realisation of
\* the definition it was given (same name)
CreateCollection(reg, c, fail, kept) ==
    IF fail THEN [reg |-> reg, err |-> BackendFailure("CreateCollection")]
    ELSE IF reg[c.Name] # NilPtr THEN [reg |-> reg, err |-> ExistsErr(c.Name)]
    ELSE [reg |-> [reg EXCEPT ![c.Name] = Ptr(kept)], err |-> NoErr]

DeleteCollection(reg, name, fail) ==
    IF fail THEN [reg |-> reg, err |-> BackendFailure("DeleteCollection")]
    ELSE IF reg[name] = NilPtr THEN [reg |-> reg, err |-> CollectionNotFound(name)]
    ELSE [reg |-> [reg EXCEPT ![name] = NilPtr], err |-> NoErr]

\* op when no operation is running: the caller has taken the last result
NoOp == [name |-> "none"]

\* entries of calls: the call, its argument and what it returned
Call(name, arg, out) == [call |-> name, arg |-> arg, out |-> out]

\* the positions of the calls named name in a log
CallsTo(log, name) == {i \in 1..Len(log) : log[i].call = name}

----------------------------------------------------------------------------
(* Collection.Diff *)

FieldOf(c, name) == {c.Fields[i] : i \in {j \in 1..Len(c.Fields) : c.Fields[j].Name = name}}

RECURSIVE DiffFields(_, _, _)
DiffFields(desired, actual, i) ==
    IF i > Len(desired.Fields) THEN <<>>
    ELSE LET want == desired.Fields[i]
             have == FieldOf(actual, want.Name)
             delta == IF have = {} THEN <<[delta |-> "FieldMissing", field |-> want.Name]>>
                      ELSE IF \E h \in have : h.Type # want.Type
                           THEN <<[delta |-> "FieldMismatch", field |-> want.Name]>>
                           ELSE <<>>
         IN  delta \o DiffFields(desired, actual, i + 1)

\* the deltas of desired against actual, in the order of desired.Fields;
\* <<>> is the nil result
Diff(desired, actual) == DiffFields(desired, actual, 1)

----------------------------------------------------------------------------
(* Model.Migrate *)

SchemaError(name, diffs) == [kind |-> "schema_differs", name |-> name, deltas |-> diffs]

\* a variant of MigrateResult that heals the drift itself: it hands the deltas
\* to the backend's Migratable.Migrate and reports success
MigrateResultHeals(desired, diffs) ==
    IF diffs # <<>>
    THEN [calls |-> <<Call("Migratable.Migrate", diffs, NoErr)>>, ret |-> NoErr]
    ELSE [calls |-> <<>>, ret |-> NoErr]

\* lines 73-83: what Migrate does with the deltas: the calls it still makes and
\* the error (or nil) it returns
MigrateResult(desired, diffs) ==
    IF diffs # <<>>
    THEN [calls |-> <<>>, ret |-> SchemaError(desired.Name, diffs)]
    ELSE [calls |-> <<>>, ret |-> NoErr]

\* line 73: the diff of the desired against the actual collection, then
\* MigrateResult.  onNil is what Diff does with a nil actual collection:
\* "panic" (it dereferences it) or "empty" (it reads it as having no fields).
MigrateDiff(desired, actual, onNil, sofar) ==
    IF actual = NilPtr /\ onNil = "panic"
    THEN [calls |-> Append(sofar, Call("Diff", actual, [diffs |-> <<>>, panic |-> TRUE])),
          ret |-> Panic]
    ELSE LET act == IF actual = NilPtr THEN [desired EXCEPT !.Fields = <<>>]
                    ELSE Deref(actual)
             diffs == Diff(desired, act)
             res == MigrateResult(desired, diffs)
         IN  [calls |-> Append(sofar, Call("Diff", actual, [diffs |-> diffs, panic |-> FALSE]))
                        \o res.calls,
              ret |-> res.ret]

\* a variant of ActualAfterCreate that takes the desired collection itself as
\* the actual one
ActualIsDesired(desired, g2) == Ptr(desired)

\* lines 61-62: after a successful creation the actual collection is the one
\* the second GetCollection returned
ActualAfterCreate(desired, g2) == g2.c

\* lines 55-84.  fail1, failC, fail2: whether the first GetCollection, the
\* CreateCollection and the second GetCollection fail in the backend; kept: the
\* collection the backend keeps on creation.
MigrateRun(desired, reg, fail1, failC, kept, fail2, onNil) ==
    LET g1 == GetCollection(reg, desired.Name, fail1)
        log1 == <<Call("GetCollection", desired.Name, g1)>>
    IN  IF IsCollectionNotFoundErr(g1.err)
        THEN LET cr == CreateCollection(reg, desired, failC, kept)
                 log2 == Append(log1, Call("CreateCollection", desired, cr.err))
             IN  IF cr.err = NoErr
                 THEN LET g2 == GetCollection(cr.reg, desired.Name, fail2)
                          log3 == Append(log2, Call("GetCollection", desired.Name, g2))
                      IN  IF g2.err = NoErr
                          THEN [reg |-> cr.reg] @@
                               MigrateDiff(desired, ActualAfterCreate(desired, g2), onNil, log3)
                          ELSE [reg |-> cr.reg, calls |-> log3, ret |-> g2.err]
                 ELSE [reg |-> cr.reg, calls |-> log2, ret |-> cr.err]
        ELSE [reg |-> reg] @@ MigrateDiff(desired, g1.c, onNil, log1)

\* what the backend keeps of a collection it is asked to create: the name and
\* identity as given, the fields as the backend realises them
Realisations(c) == {[c EXCEPT !.Fields = fl] : fl \in FieldLists}

Migrate ==
    /\ op = NoOp
    /\ \E fail1 \in BOOLEAN :
         LET first == GetCollection(registry, model.Name, fail1)
             creates == IsCollectionNotFoundErr(first.err)
         IN
         \E failC \in (IF creates THEN BOOLEAN ELSE {FALSE}) :
         \E fail2 \in (IF creates /\ ~failC THEN BOOLEAN ELSE {FALSE}) :
         \E kept \in (IF creates /\ ~failC THEN Realisations(model) ELSE {model}) :
         \E onNil \in (IF fail1 THEN {"panic", "empty"} ELSE {"panic"}) :
           LET r == MigrateRun(model, registry, fail1, failC, kept, fail2, onNil)
           IN  /\ registry' = r.reg
               /\ calls' = r.calls
               /\ ret' = r.ret
               /\ op' = [name |-> "Migrate", first |-> first]
               /\ UNCHANGED <<upserts, backend, model, stored, resp>>

\* Model.Drop
Drop ==
    /\ op = NoOp
    /\ \E fail \in BOOLEAN :
           LET r == DeleteCollection(registry, model.Name, fail)
           IN  /\ registry' = r.reg
               /\ calls' = <<Call("DeleteCollection", model.Name, r.err)>>
               /\ ret' = r.err
               /\ op' = [name |-> "Drop"]
               /\ UNCHANGED <<upserts, backend, model, stored, resp>>

----------------------------------------------------------------------------
(* Collection.MakeRecord *)

\* A field value is nil (a nil interface) or a number; 0 is the zero value of
\* the field's type.
NilValue == <<>>
Values == {NilValue} \cup {<<n>> : n \in 0..MaxValue}
IsZeroValue(v) == v = <<0>>

\* the Go names of the struct fields and the names their tags may give them
GoNames == {"ID", "Key"}
NoTag == ""
TagNames == FieldNames

\* one field of the input struct: its tag name (NoTag: no mapping tag), the
\* identity and omitempty options of the tag, and its value
StructFields ==
    [tag : {NoTag}, identity : {FALSE}, omitEmpty : {FALSE}, value : Values]
    \cup [tag : TagNames, identity : BOOLEAN, omitEmpty : BOOLEAN, value : Values]

\* the structs: Go field name -> field, no tag name used twice
Structs ==
    UNION {
        {st \in [names -> StructFields] :
            \A m, n \in names : (st[m].tag # NoTag /\ st[m].tag = st[n].tag) => m = n}
        : names \in SUBSET GoNames}

\* the shapes of the value handed to MakeRecord
Shapes == {"ptr_struct", "struct", "ptr_other", "nil"}

InvalidInput(shape) == [kind |-> "invalid_input", shape |-> shape]
DescriptorError == [kind |-> "field_descriptors"]

\* validatePtrToStructType: nil for a pointer to a struct, an error otherwise
validatePtrToStructType(shape) ==
    IF shape = "ptr_struct" THEN NoErr ELSE InvalidInput(shape)

\* getFieldsForStruct: tag name -> descriptor of the tagged fields
getFieldsForStruct(st) ==
    LET tagged == {n \in DOMAIN st : st[n].tag # NoTag}
        tags == {st[n].tag : n \in tagged}
    IN  [t \in tags |-> LET n == CHOOSE m \in tagged : st[m].tag = t
                        IN  [goName |-> n, Identity |-> st[n].identity,
                             OmitEmpty |-> st[n].omitEmpty, Value |-> st[n].value]]

RECURSIVE IterationOrders(_)
\* the orders a Go map over the keys S may be iterated in
IterationOrders(S) ==
    IF S = {} THEN {<<>>}
    ELSE UNION {{<<x>> \o p : p \in IterationOrders(S \ {x})} : x \in S}

\* dal.Record, with idFrom: the Go name of the field ID was taken from ("" if
\* none), and panic: the loop panicked
NewRecord == [ID |-> NilValue, Fields |-> <<>>, idFrom |-> "", panic |-> FALSE]

\* Record.Set and delete(record.Fields, key) on the Fields mapping
SetField(fs, key, value) == [k \in DOMAIN fs \cup {key} |-> IF k = key THEN value ELSE fs[k]]
DeleteField(fs, key) == [k \in DOMAIN fs \ {key} |-> fs[k]]

\* lines 94-96
actualFieldNames(c) == {c.Fields[i].Name : i \in 1..Len(c.Fields)}

\* lines 102-114: the body of the first loop for one tag name
CopyField(c, record, tagName, fieldDescr) ==
    LET value == fieldDescr.Value
    IN  IF fieldDescr.OmitEmpty /\ value = NilValue
        THEN [record EXCEPT !.panic = TRUE]      \* reflect.Zero(reflect.TypeOf(nil))
        ELSE IF fieldDescr.OmitEmpty /\ IsZeroValue(value)
        THEN record
        ELSE IF fieldDescr.Identity
        THEN [record EXCEPT !.ID = value, !.idFrom = fieldDescr.goName]
        ELSE IF tagName \in actualFieldNames(c)
        THEN [record EXCEPT !.Fields = SetField(@, tagName, value)]
        ELSE record

RECURSIVE CopyFields(_, _, _, _, _)
\* lines 101-115: the first loop, over the tag names in the order the map yields
CopyFields(c, record, fields, order, i) ==
    IF i > Len(order) \/ record.panic THEN record
    ELSE CopyFields(c, CopyField(c, record, order[i], fields[order[i]]), fields, order, i + 1)

\* lines 119-127: no ID yet: the field whose tag name is the identity field
IdentityByName(c, record, fields) ==
    IF record.ID = NilValue /\ c.IdentityField \in DOMAIN fields
    THEN [record EXCEPT !.ID = fields[c.IdentityField].Value,
                        !.idFrom = fields[c.IdentityField].goName,
                        !.Fields = DeleteField(@, c.IdentityField)]
    ELSE record

\* lines 130-135: still no ID: the struct field called "ID"
IdentityByGoName(record, st) ==
    IF record.ID = NilValue /\ "ID" \in DOMAIN st
    THEN [record EXCEPT !.ID = st["ID"].value,
                        !.idFrom = "ID",
                        !.Fields = DeleteField(@, "ID")]
    ELSE record

\* lines 82-141.  order: the order the map of field descriptors is iterated in;
\* descrFail: getFieldsForStruct fails
MakeRecord(c, in, order, descrFail) ==
    IF validatePtrToStructType(in.shape) # NoErr
    THEN [record |-> NilPtr, err |-> validatePtrToStructType(in.shape)]
    ELSE IF descrFail
    THEN [record |-> NilPtr, err |-> DescriptorError]
    ELSE LET fields == getFieldsForStruct(in.st)
             first == CopyFields(c, NewRecord, fields, order, 1)
         IN  IF first.panic
             THEN [record |-> NilPtr, err |-> Panic]
             ELSE [record |-> Ptr(IdentityByGoName(IdentityByName(c, first, fields), in.st)),
                   err |-> NoErr]

\* the values MakeRecord may be handed, and the ways it may run on them
Inputs ==
    {[shape |-> "ptr_struct", st |-> st] : st \in Structs}
    \cup {[shape |-> sh, st |-> <<>>] : sh \in Shapes \ {"ptr_struct"}}

Orders(in) ==
    IF in.shape = "ptr_struct" THEN IterationOrders(DOMAIN getFieldsForStruct(in.st)) ELSE {<<>>}

MakeRecordCall ==
    /\ op = NoOp
    /\ \E in \in Inputs :
       \E order \in Orders(in) :
       \E descrFail \in (IF in.shape = "ptr_struct" THEN BOOLEAN ELSE {FALSE}) :
           /\ op' = [name |-> "MakeRecord", in |-> in, order |-> order]
           /\ ret' = MakeRecord(model, in, order, descrFail)
           /\ calls' = <<>>
           /\ UNCHANGED <<upserts, backend, model, registry, stored, resp>>

----------------------------------------------------------------------------
(* Model.Create, Model.Update *)

RecordNotFound == [kind |-> "record_not_found"]

\* Backend.Exists
Exists(st, id) == id \in st

\* the id the backend gives a record inserted without one
FreshIds(st) == {v \in Values \ {NilValue} : v \notin st}

\* Backend.Insert of a one-record set
Insert(st, record, fail) ==
    IF fail \/ record = NilPtr THEN [stored |-> st, err |-> BackendFailure("Insert")]
    ELSE LET id == Deref(record).ID
         IN  IF id = NilValue
             THEN IF FreshIds(st) = {} THEN [stored |-> st, err |-> BackendFailure("Insert")]
                  ELSE [stored |-> st \cup {CHOOSE v \in FreshIds(st) : TRUE}, err |-> NoErr]
             ELSE IF Exists(st, id) THEN [stored |-> st, err |-> ExistsErr("record")]
             ELSE [stored |-> st \cup {id}, err |-> NoErr]

\* Backend.Update of a one-record set
Update(st, record, fail) ==
    IF fail \/ record = NilPtr THEN [stored |-> st, err |-> BackendFailure("Update")]
    ELSE IF ~Exists(st, Deref(record).ID) THEN [stored |-> st, err |-> RecordNotFound]
    ELSE [stored |-> st, err |-> NoErr]

BackendWrite(method, st, record, fail) ==
    IF method = "Insert" THEN Insert(st, record, fail) ELSE Update(st, record, fail)

\* a variant of ModelSave that hands whatever MakeRecord returned to the backend
ModelSaveUnchecked(method, st, made, fail) ==
    LET w == BackendWrite(method, st, made.record, fail)
    IN  [calls |-> <<Call(method, made.record, w.err)>>, ret |-> w.err, stored |-> w.stored]

\* lines 93-97 and 120-124: made is what MakeRecord returned; the record goes
\* to the backend's Insert (Create) or Update (Update) only if MakeRecord
\* returned no error
ModelSave(method, st, made, fail) ==
    IF made.err = NoErr
    THEN LET w == BackendWrite(method, st, made.record, fail)
         IN  [calls |-> <<Call(method, made.record, w.err)>>, ret |-> w.err, stored |-> w.stored]
    ELSE [calls |-> <<>>, ret |-> made.err, stored |-> st]

\* Model.Create (method "Insert") and Model.Update (method "Update")
ModelWrite(opName, method) ==
    /\ op = NoOp
    /\ \E in \in Inputs :
       \E order \in Orders(in) :
       \E descrFail \in (IF in.shape = "ptr_struct" THEN BOOLEAN ELSE {FALSE}) :
         LET made == MakeRecord(model, in, order, descrFail)
         IN  \E fail \in (IF made.err = NoErr THEN BOOLEAN ELSE {FALSE}) :
               LET r == ModelSave(method, stored, made, fail)
               IN  /\ op' = [name |-> opName, in |-> in, order |-> order, made |-> made]
                   /\ calls' = r.calls
                   /\ ret' = r.ret
                   /\ stored' = r.stored
                   /\ UNCHANGED <<upserts, backend, model, registry, resp>>

Create == ModelWrite("Create", "Insert")

ModelUpdate == ModelWrite("Update", "Update")

----------------------------------------------------------------------------
(* The HTTP server: requests and responses *)

\* http status codes
StatusOK == 200
StatusCreated == 201
StatusBadRequest == 400
StatusNotFound == 404
StatusConflict == 409
StatusInternalServerError == 500

\* the types the backend may have (what %T prints for self.backend / self.db)
BackendTypes == {"*backends.SqlBackend", "*backends.FilesystemBackend"}

\* an error made with fmt.Errorf
Errorf(kind, about) == [kind |-> kind, about |-> about]

\* httputil.RespondJSON(w, data, status...): one response written; without a
\* status an error is answered with 500, anything else with 200
IsError(data) == "kind" \in DOMAIN data
RespondJSON(data) ==
    [status |-> IF IsError(data) THEN StatusInternalServerError ELSE StatusOK, body |-> data]
RespondJSONStatus(data, status) == [status |-> status, body |-> data]

\* response bodies that are not errors
Body(what) == [json |-> what]

\* The query-string parameters of a request: name -> value, at most MaxParams
\* of them given.
ParamValues ==
    [limit |-> {"0", "5", "x"}, offset |-> {"1"}, sort |-> {"-id"}, fields |-> {"id,key"},
     index |-> {"ix"}, keys |-> {"id,key"}, joiner |-> {":"},
     q |-> {"all", "id/is/1", "id//"},
     fn |-> {"sum", "min,max", "avg,median", "count,sum"}]

ParamNames == DOMAIN ParamValues

QueryStrings ==
    UNION {
        {qs \in [names -> UNION {ParamValues[n] : n \in names}] :
            \A n \in names : qs[n] \in ParamValues[n]}
        : names \in {ns \in SUBSET ParamNames : Cardinality(ns) <= MaxParams}}

\* httputil.Q(req, key, fallback)
Q(qs, key, fallback) == IF key \in DOMAIN qs THEN qs[key] ELSE fallback

\* strconv on the decimal strings in use; "x" is not a number
IsNumber(str) == str \in {"0", "1", "5"}
ParseInt(str) == IF str = "0" THEN 0 ELSE IF str = "1" THEN 1 ELSE 5

\* httputil.QInt(req, key, fallback)
QInt(qs, key, fallback) ==
    IF key \in DOMAIN qs /\ IsNumber(qs[key]) THEN ParseInt(qs[key]) ELSE fallback

\* strings.Split(v, `,`) on the lists in use
SplitComma(v) ==
    IF v = "id,key" THEN <<"id", "key">>
    ELSE IF v = "min,max" THEN <<"min", "max">>
    ELSE IF v = "avg,median" THEN <<"avg", "median">>
    ELSE IF v = "count,sum" THEN <<"count", "sum">>
    ELSE <<v>>

----------------------------------------------------------------------------
(* filterFromRequest, injectRequestParamsIntoCollection *)

DefaultResultLimit == 25

ParseError(q) == [kind |-> "filter_parse", about |-> q]

\* filter.Filter
NewFilter(what) == [Spec |-> what, Limit |-> 0, Offset |-> 0, Sort |-> <<>>, Fields |-> <<>>]

\* filter.Parse: `all` is the filter that matches everything, field/operator/value
\* a filter with that criterion, anything else a parse error
Parse(q) ==
    IF q = "all" THEN [f |-> Ptr(NewFilter("all")), err |-> NoErr]
    ELSE IF q = "id/is/1" THEN [f |-> Ptr(NewFilter("id/is/1")), err |-> NoErr]
    ELSE [f |-> NilPtr, err |-> ParseError(q)]

\* what a handler hands to filterFromRequest as filterIn
NilInput == [type |-> "nil", value |-> ""]
StringInput(q) == [type |-> "string", value |-> q]
MapInput(m) == [type |-> "map", value |-> m]

\* lines 601-625: the filter made from filterIn
FilterOfInput(filterIn) ==
    IF filterIn.type = "string" THEN Parse(filterIn.value)
    ELSE IF filterIn.type = "map"
    THEN IF filterIn.value = "not_compactable"
         THEN [f |-> NilPtr, err |-> Errorf("map error", filterIn.value)]
         ELSE IF filterIn.value = "bad_criteria"
         THEN [f |-> NilPtr, err |-> Errorf("filter parse error", filterIn.value)]
         ELSE [f |-> Ptr(NewFilter("map")), err |-> NoErr]
    ELSE [f |-> NilPtr, err |-> Errorf("Unsupported filter input type", filterIn.type)]

\* lines 596-639
filterFromRequest(qs, filterIn, defaultLimit) ==
    LET limit == QInt(qs, "limit", defaultLimit)
        offset == QInt(qs, "offset", 0)
        parsed == FilterOfInput(filterIn)
    IN  IF parsed.err # NoErr THEN parsed
        ELSE [f |-> Ptr([Deref(parsed.f) EXCEPT
                            !.Limit = limit,
                            !.Offset = offset,
                            !.Sort = IF Q(qs, "sort", "") # "" THEN SplitComma(qs["sort"]) ELSE @,
                            !.Fields = IF Q(qs, "fields", "") # "" THEN SplitComma(qs["fields"]) ELSE @]),
              err |-> NoErr]

\* lines 576-594: the copy of the collection with the request's overrides
injectRequestParamsIntoCollection(qs, collection) ==
    LET c == Deref(collection)
    IN  Ptr([c EXCEPT
                !.IndexName = IF Q(qs, "index", "") # "" THEN qs["index"] ELSE @,
                !.IndexCompoundFields =
                    IF Q(qs, "keys", "") # "" THEN SplitComma(qs["keys"]) ELSE @,
                !.IndexCompoundFieldJoiner = IF Q(qs, "joiner", "") # "" THEN qs["joiner"] ELSE @])

----------------------------------------------------------------------------
(* queryHandler: POST/GET /api/collections/:collection/query/ and            *)
(* GET /api/collections/:collection/where/*urlquery                          *)

\* the names a ':'-separated path segment may hold; "" is an empty piece
SegmentNames == Names \cup {""}

\* strings.Split(vestigo.Param(req, `collection`), `:`): at least one piece
Segments == SeqsUpTo(SegmentNames, MaxSegments) \ {<<>>}

\* the requests the query routes take: method, the pieces of :collection, the
\* *urlquery text (GET) or the kind of body (POST), and the query string
QueryRequests ==
    [method : {"GET"}, collections : Segments, urlquery : {"", "all", "id/is/1", "id//"},
     body : {""}, qs : QueryStrings]
    \cup [method : {"POST"}, collections : Segments, urlquery : {""},
           body : {"unparseable", "criteria", "bad_criteria", "not_compactable"},
           qs : QueryStrings]

\* Backend.WithSearch(collection): has tells whether the backend can search it
Indexer(collection) == [collection |-> collection]
WithSearch(collection, has) == IF has THEN Ptr(Indexer(collection)) ELSE NilPtr

Unsupported(backendType, what) ==
    [kind |-> "unsupported", backend |-> backendType, about |-> what]

\* Indexer.Query
RecordSet(from) == Body([recordset |-> from])
Query(index, collection, f, fail) ==
    IF fail THEN [rs |-> NilPtr, err |-> BackendFailure("Query")]
    ELSE [rs |-> Ptr(RecordSet(Deref(collection).Name)), err |-> NoErr]

\* lines 183-198: the filter input of the request; err: the body of a POST
\* could not be parsed
QueryInput(req) ==
    IF req.method = "GET"
    THEN [query |-> IF req.urlquery # "" THEN StringInput(req.urlquery) ELSE NilInput,
          err |-> NoErr]
    ELSE IF req.body = "unparseable"
         THEN [query |-> NilInput, err |-> Errorf("request body", req.body)]
         ELSE [query |-> MapInput(req.body), err |-> NoErr]

\* lines 206-238: the collection was found.  env: whether the backend can
\* search the left and the right collection, and which calls fail
QueryFound(req, reg, backendType, f, found, env) ==
    LET collection == injectRequestParamsIntoCollection(req.qs, found)
        rightName == IF Len(req.collections) = 2 THEN req.collections[2] ELSE ""
        search == WithSearch(collection, env.searchLeft)
        log1 == <<Call("WithSearch", collection, search)>>
        single == Query("single", collection, f, env.failQuery)
        answer(q) == IF q.err = NoErr THEN RespondJSON(Deref(q.rs)) ELSE RespondJSON(q.err)
    IN  IF search = NilPtr
        THEN [calls |-> log1,
              resp |-> <<RespondJSONStatus(Unsupported(backendType, "complex queries"),
                                           StatusBadRequest)>>]
        ELSE IF rightName = ""
        THEN [calls |-> Append(log1, Call("Query", [index |-> "single", f |-> f], single.err)),
              resp |-> <<answer(single)>>]
        ELSE LET g2 == GetCollection(reg, rightName, env.failRight)
                 log2 == Append(log1, Call("GetCollection", rightName, g2))
             IN  IF g2.err # NoErr
                 THEN [calls |-> log2,
                       resp |-> <<RespondJSON(Errorf("right-side", g2.err.kind))>>]
                 ELSE LET rightSearch == WithSearch(g2.c, env.searchRight)
                          log3 == Append(log2, Call("WithSearch", g2.c, rightSearch))
                      IN  IF rightSearch = NilPtr
                          THEN [calls |-> log3,
                                resp |-> <<RespondJSONStatus(
                                              Unsupported(backendType, "complex queries"),
                                              StatusBadRequest)>>]
                          ELSE [calls |-> Append(log3,
                                    Call("Query", [index |-> "meta", f |-> f], single.err)),
                                resp |-> <<answer(single)>>]

\* lines 200-246: the filter, then the lookup of the (left) collection
QueryFiltered(req, reg, backendType, name, query, env) ==
    LET flt == filterFromRequest(req.qs, query, DefaultResultLimit)
        g1 == GetCollection(reg, name, env.failLeft)
    IN  IF flt.err # NoErr
        THEN [calls |-> <<>>, resp |-> <<RespondJSONStatus(flt.err, StatusBadRequest)>>]
        ELSE IF g1.err = NoErr
        THEN LET r == QueryFound(req, reg, backendType, flt.f, g1.c, env)
             IN  [calls |-> <<Call("GetCollection", name, g1)>> \o r.calls, resp |-> r.resp]
        ELSE [calls |-> <<Call("GetCollection", name, g1)>>,
              resp |-> <<IF IsCollectionNotFoundErr(g1.err)
                         THEN RespondJSONStatus(g1.err, StatusNotFound)
                         ELSE RespondJSON(g1.err)>>]

\* a variant of queryHandlerRun that joins any number of collections: it goes
\* on with the first one
queryHandlerJoinsAny(req, reg, backendType, env) ==
    LET in == QueryInput(req)
    IN  IF in.err # NoErr
        THEN [calls |-> <<>>, resp |-> <<RespondJSONStatus(in.err, StatusBadRequest)>>]
        ELSE QueryFiltered(req, reg, backendType, req.collections[1], in.query, env)

\* lines 163-247
queryHandlerRun(req, reg, backendType, env) ==
    IF Len(req.collections) > 2
    THEN [calls |-> <<>>,
          resp |-> <<RespondJSONStatus(
                        Errorf("Only two (2) joined collections are supported", ""),
                        StatusBadRequest)>>]
    ELSE LET in == QueryInput(req)
         IN  IF in.err # NoErr
             THEN [calls |-> <<>>, resp |-> <<RespondJSONStatus(in.err, StatusBadRequest)>>]
             ELSE QueryFiltered(req, reg, backendType, req.collections[1], in.query, env)

Envs == [failLeft : BOOLEAN, failRight : BOOLEAN, searchLeft : BOOLEAN,
         searchRight : BOOLEAN, failQuery : BOOLEAN]

queryHandler ==
    /\ op = NoOp
    /\ \E req \in QueryRequests, env \in Envs :
         LET r == queryHandlerRun(req, registry, backend, env)
         IN  /\ op' = [name |-> "queryHandler", req |-> req]
             /\ calls' = r.calls
             /\ resp' = r.resp
             /\ ret' = NoErr
             /\ UNCHANGED <<upserts, model, backend, registry, stored>>

----------------------------------------------------------------------------
(* GET /api/collections/:collection/aggregate/:fields *)

\* the :fields path parameter, split at `,`
AggregateFields == SeqsUpTo(FieldNames, MaxAggFields) \ {<<>>}

AggregateRequests == [collection : SegmentNames, fields : AggregateFields, qs : QueryStrings]

\* Backend.WithAggregator(collection): has tells whether the backend aggregates
Aggregator(collection) == [aggregates |-> collection]
WithAggregator(collection, has) == IF has THEN Ptr(Aggregator(collection)) ELSE NilPtr

\* lines 273-287: the Aggregator method an aggregation name stands for; "" if
\* it is not supported
AggregatorMethod(aggregation) ==
    IF aggregation = "count" THEN "Count"
    ELSE IF aggregation = "sum" THEN "Sum"
    ELSE IF aggregation = "min" THEN "Minimum"
    ELSE IF aggregation = "max" THEN "Maximum"
    ELSE IF aggregation = "avg" THEN "Average"
    ELSE ""

AggregatorMethods == {"Count", "Sum", "Minimum", "Maximum", "Average"}

RECURSIVE Pairs(_, _, _, _)
\* lines 266-269: the (field, aggregation) pairs in the order of the two loops
Pairs(fields, aggregations, i, j) ==
    IF i > Len(fields) THEN <<>>
    ELSE IF j > Len(aggregations) THEN Pairs(fields, aggregations, i + 1, 1)
    ELSE <<[field |-> fields[i], aggregation |-> aggregations[j]]>>
         \o Pairs(fields, aggregations, i, j + 1)

RECURSIVE AggregateAll(_, _, _, _)
\* lines 266-298: the two loops, from the k-th pair on.  failAt: the position
\* of the aggregator call that fails (0: none)
AggregateAll(pairs, failAt, k, acc) ==
    IF k > Len(pairs) \/ acc.returned THEN acc
    ELSE LET method == AggregatorMethod(pairs[k].aggregation)
             err == IF Len(acc.calls) + 1 = failAt THEN BackendFailure(method) ELSE NoErr
         IN  AggregateAll(pairs, failAt, k + 1,
                IF method = ""
                THEN [acc EXCEPT !.returned = TRUE,
                        !.resp = <<RespondJSONStatus(
                                      Errorf("Unsupported aggregator", pairs[k].aggregation),
                                      StatusBadRequest)>>]
                ELSE IF err # NoErr
                THEN [acc EXCEPT !.returned = TRUE,
                        !.calls = Append(@, Call(method, pairs[k].field, err)),
                        !.resp = <<RespondJSON(err)>>]
                ELSE [acc EXCEPT !.calls = Append(@, Call(method, pairs[k].field, err)),
                                 !.results = Append(@, pairs[k])])

\* a variant of aggregateFound that aggregates whatever WithAggregator returned
aggregateFoundUnasked(req, backendType, f, found, has, failAt) ==
    LET collection == injectRequestParamsIntoCollection(req.qs, found)
        aggregator == WithAggregator(collection, has)
        log1 == <<Call("WithAggregator", collection, aggregator)>>
        done == AggregateAll(Pairs(req.fields, SplitComma(Q(req.qs, "fn", "count")), 1, 1),
                             failAt, 1,
                             [calls |-> <<>>, resp |-> <<>>, results |-> <<>>,
                              returned |-> FALSE])
    IN  [calls |-> log1 \o done.calls,
         resp |-> IF done.returned THEN done.resp
                  ELSE <<RespondJSON(Body([results |-> done.results]))>>]

\* lines 261-303: the collection was found
aggregateFound(req, backendType, f, found, has, failAt) ==
    LET collection == injectRequestParamsIntoCollection(req.qs, found)
        aggregator == WithAggregator(collection, has)
        log1 == <<Call("WithAggregator", collection, aggregator)>>
        done == AggregateAll(Pairs(req.fields, SplitComma(Q(req.qs, "fn", "count")), 1, 1),
                             failAt, 1,
                             [calls |-> <<>>, resp |-> <<>>, results |-> <<>>,
                              returned |-> FALSE])
    IN  IF aggregator = NilPtr
        THEN [calls |-> log1,
              resp |-> <<RespondJSONStatus(Unsupported(backendType, "aggregations"),
                                           StatusBadRequest)>>]
        ELSE [calls |-> log1 \o done.calls,
              resp |-> IF done.returned THEN done.resp
                       ELSE <<RespondJSON(Body([results |-> done.results]))>>]

\* lines 253-312
aggregateRun(req, reg, backendType, failGet, has, failAt) ==
    LET flt == filterFromRequest(req.qs, StringInput(Q(req.qs, "q", "all")), 0)
        g == GetCollection(reg, req.collection, failGet)
    IN  IF flt.err # NoErr
        THEN [calls |-> <<>>, resp |-> <<RespondJSONStatus(flt.err, StatusBadRequest)>>]
        ELSE IF g.err = NoErr
        THEN LET r == aggregateFound(req, backendType, flt.f, g.c, has, failAt)
             IN  [calls |-> <<Call("GetCollection", req.collection, g)>> \o r.calls,
                  resp |-> r.resp]
        ELSE [calls |-> <<Call("GetCollection", req.collection, g)>>,
              resp |-> <<IF IsCollectionNotFoundErr(g.err)
                         THEN RespondJSONStatus(g.err, StatusNotFound)
                         ELSE RespondJSON(g.err)>>]

aggregateHandler ==
    /\ op = NoOp
    /\ \E req \in AggregateRequests, failGet, has \in BOOLEAN :
       \E failAt \in 0..(Len(req.fields) * Len(SplitComma(Q(req.qs, "fn", "count")))) :
         LET r == aggregateRun(req, registry, backend, failGet, has, failAt)
         IN  /\ op' = [name |-> "aggregate", req |-> req]
             /\ calls' = r.calls
             /\ resp' = r.resp
             /\ ret' = NoErr
             /\ UNCHANGED <<upserts, backend, model, registry, stored>>

----------------------------------------------------------------------------
(* GET /api/collections/:collection/list/*fields *)

ListRequests == [collection : SegmentNames, fields : {"/id", "/id/key"}, qs : QueryStrings]

\* lines 324-326: strings.Split(strings.TrimPrefix(fieldNames, `/`), `/`)
ListFields(fieldNames) == IF fieldNames = "/id/key" THEN <<"id", "key">> ELSE <<"id">>

\* Indexer.ListValues
ListValues(index, fields, f, fail) ==
    IF fail THEN [values |-> NilPtr, err |-> BackendFailure("ListValues")]
    ELSE [values |-> Ptr(Body([values |-> fields])), err |-> NoErr]

\* lines 321-333: the collection was found
listFound(req, backendType, f, found, has, fail) ==
    LET collection == injectRequestParamsIntoCollection(req.qs, found)
        search == WithSearch(collection, has)
        log1 == <<Call("WithSearch", collection, search)>>
        fields == ListFields(req.fields)
        lv == ListValues(search, fields, f, fail)
    IN  IF search = NilPtr
        THEN [calls |-> log1,
              resp |-> <<RespondJSONStatus(Unsupported(backendType, "complex queries"),
                                           StatusBadRequest)>>]
        ELSE [calls |-> Append(log1, Call("ListValues", [fields |-> fields, f |-> f], lv.err)),
              resp |-> <<IF lv.err = NoErr THEN RespondJSON(Deref(lv.values))
                         ELSE RespondJSON(lv.err)>>]

\* lines 314-342
listRun(req, reg, backendType, failGet, has, fail) ==
    LET flt == filterFromRequest(req.qs, StringInput(Q(req.qs, "q", "all")), 0)
        g == GetCollection(reg, req.collection, failGet)
    IN  IF flt.err # NoErr
        THEN [calls |-> <<>>, resp |-> <<RespondJSONStatus(flt.err, StatusBadRequest)>>]
        ELSE IF g.err = NoErr
        THEN LET r == listFound(req, backendType, flt.f, g.c, has, fail)
             IN  [calls |-> <<Call("GetCollection", req.collection, g)>> \o r.calls,
                  resp |-> r.resp]
        ELSE [calls |-> <<Call("GetCollection", req.collection, g)>>,
              resp |-> <<IF IsCollectionNotFoundErr(g.err)
                         THEN RespondJSONStatus(g.err, StatusNotFound)
                         ELSE RespondJSON(g.err)>>]

listHandler ==
    /\ op = NoOp
    /\ \E req \in ListRequests, failGet, has, fail \in BOOLEAN :
         LET r == listRun(req, registry, backend, failGet, has, fail)
         IN  /\ op' = [name |-> "list", req |-> req]
             /\ calls' = r.calls
             /\ resp' = r.resp
             /\ ret' = NoErr
             /\ UNCHANGED <<upserts, backend, model, registry, stored>>

----------------------------------------------------------------------------
(* Model.Find *)

\* what Find is asked to fill: a pointer to a slice, to a dal.RecordSet, to
\* another struct or to something else, or a slice that is not behind a pointer
Intos == {"ptr_slice", "ptr_recordset", "ptr_struct", "ptr_int", "slice"}

FindFilters == {NewFilter("all"), NewFilter("id/is/1")}

\* lines 148-212.  has: the backend searches; failPopulate: a record of the
\* result does not fit the element type
FindRun(c, backendType, f, into, has, failQuery, failPopulate) ==
    LET search == WithSearch(NilPtr, has)
        log1 == <<Call("WithSearch", NilPtr, search)>>
        q == Query("single", Ptr(c), Ptr(f), failQuery)
        log2 == Append(log1, Call("Query", [index |-> "single", f |-> Ptr(f)], q.err))
    IN  IF search = NilPtr
        THEN [calls |-> log1, ret |-> Unsupported(backendType, "searching")]
        ELSE IF into = "slice"
        THEN [calls |-> log1, ret |-> Errorf("Output argument must be a pointer", into)]
        ELSE IF q.err # NoErr
        THEN [calls |-> log2, ret |-> q.err]
        ELSE IF into = "ptr_slice"
        THEN [calls |-> log2,
              ret |-> IF failPopulate THEN Errorf("populate", into) ELSE NoErr]
        ELSE IF into = "ptr_recordset"
        THEN [calls |-> log2, ret |-> NoErr]
        ELSE [calls |-> log2,
              ret |-> Errorf("model can only populate results into slice or array", into)]

Find ==
    /\ op = NoOp
    /\ \E f \in FindFilters, into \in Intos, has, failQuery, failPopulate \in BOOLEAN :
         LET r == FindRun(model, backend, f, into, has, failQuery, failPopulate)
         IN  /\ op' = [name |-> "Find", f |-> f, into |-> into]
             /\ calls' = r.calls
             /\ ret' = r.ret
             /\ UNCHANGED <<upserts, backend, model, registry, stored, resp>>

----------------------------------------------------------------------------
(* SqlBackend: Count, Sum, Minimum, Maximum, Average, GroupBy *)

\* One cell of a result row: SQL NULL, a number, or text that does not scan
\* into a number.
NullCell == [kind |-> "null", n |-> 0]
TextCell == [kind |-> "text", n |-> 0]
NumberCell(n) == [kind |-> "number", n |-> n]
Cells == {NullCell, TextCell} \cup {NumberCell(n) : n \in 0..MaxValue}

\* the rows an executed statement may yield, one cell each
ResultSets == SeqsUpTo(Cells, MaxRows)

\* how the steps before the result go: the first of them that fails, if any
Stages == {"ok", "initialize", "render", "execute"}

SqlError(stage) == [kind |-> "sql", about |-> stage]

\* a variant of extractSingleFloat64 that takes an empty result for an error,
\* as sql.Row.Scan does (sql.ErrNoRows)
extractSingleFloat64Strict(rows) ==
    IF Len(rows) > 0
    THEN IF rows[1] = TextCell
         THEN [calls |-> <<Call("rows.Next", "", TRUE), Call("rows.Scan", rows[1], SqlError("scan"))>>,
               value |-> 0, err |-> SqlError("scan")]
         ELSE [calls |-> <<Call("rows.Next", "", TRUE), Call("rows.Scan", rows[1], NoErr)>>,
               value |-> IF rows[1] = NullCell THEN 0 ELSE rows[1].n, err |-> NoErr]
    ELSE [calls |-> <<Call("rows.Next", "", FALSE)>>, value |-> 0, err |-> SqlError("no rows")]

\* lines 788-800: rows.Next, then rows.Scan into a sql.NullFloat64, whose
\* Float64 is 0 for NULL
extractSingleFloat64(rows) ==
    IF Len(rows) > 0
    THEN IF rows[1] = TextCell
         THEN [calls |-> <<Call("rows.Next", "", TRUE), Call("rows.Scan", rows[1], SqlError("scan"))>>,
               value |-> 0, err |-> SqlError("scan")]
         ELSE [calls |-> <<Call("rows.Next", "", TRUE), Call("rows.Scan", rows[1], NoErr)>>,
               value |-> IF rows[1] = NullCell THEN 0 ELSE rows[1].n, err |-> NoErr]
    ELSE [calls |-> <<Call("rows.Next", "", FALSE)>>, value |-> 0, err |-> NoErr]

\* filter.Render: the statement for one aggregate over a collection
Statement(collection, aggregation, field, flt) ==
    [select |-> aggregation, of |-> field, from |-> collection.Name, where |-> flt.Spec]

\* a variant of performQuery that closes the cursor only after resultFn
\* succeeded, as a Close call written after the extraction would
performQueryLeaky(stmt, stage, res) ==
    IF stage = "execute"
    THEN [calls |-> <<Call("db.Query", stmt, SqlError(stage))>>,
          value |-> NilPtr, err |-> SqlError(stage)]
    ELSE [calls |-> <<Call("db.Query", stmt, NoErr)>> \o res.calls
                    \o (IF res.err = NoErr THEN <<Call("rows.Close", "", NoErr)>> ELSE <<>>),
          value |-> res.value, err |-> res.err]

\* lines 766-771: db.Query; on success the deferred rows.Close runs after
\* resultFn, whatever it returns.  res: what resultFn does with the rows
performQuery(stmt, stage, res) ==
    IF stage = "execute"
    THEN [calls |-> <<Call("db.Query", stmt, SqlError(stage))>>,
          value |-> NilPtr, err |-> SqlError(stage)]
    ELSE [calls |-> <<Call("db.Query", stmt, NoErr)>> \o res.calls
                    \o <<Call("rows.Close", "", NoErr)>>,
          value |-> res.value, err |-> res.err]

\* lines 743-778, with extractSingleFloat64 as resultFn.  f: the filters given
\* (none or one); stage: the step that fails; rows: what the statement yields
aggregate(collection, aggregation, field, f, stage, rows) ==
    LET flt == IF Len(f) = 0 THEN NewFilter("all") ELSE f[1]
        stmt == Statement(collection, aggregation, field, flt)
        log1 == <<Call("Initialize", collection.Name,
                       IF stage = "initialize" THEN SqlError(stage) ELSE NoErr)>>
        log2 == Append(log1, Call("Render", collection.Name,
                       IF stage = "render" THEN SqlError(stage) ELSE NoErr))
        done == performQuery(stmt, stage, extractSingleFloat64(rows))
    IN  IF stage = "initialize" THEN [calls |-> log1, value |-> NilPtr, err |-> SqlError(stage)]
        ELSE IF stage = "render" THEN [calls |-> log2, value |-> NilPtr, err |-> SqlError(stage)]
        ELSE [done EXCEPT !.calls = log2 \o @]

RECURSIVE scanRows(_, _, _)
\* lines 806-812: the loop of extractRecordSet, from the i-th row on; a cell
\* that does not scan ends it with the error
scanRows(rows, i, acc) ==
    IF i > Len(rows)
    THEN [acc EXCEPT !.calls = Append(@, Call("rows.Next", "", FALSE))]
    ELSE IF rows[i] = TextCell
    THEN [calls |-> acc.calls \o <<Call("rows.Next", "", TRUE),
                                   Call("rows.Scan", rows[i], SqlError("scan"))>>,
          value |-> NilPtr, err |-> SqlError("scan")]
    ELSE scanRows(rows, i + 1,
            [acc EXCEPT !.calls = @ \o <<Call("rows.Next", "", TRUE),
                                         Call("rows.Scan", rows[i], NoErr)>>,
                        !.value = Ptr(Append(Deref(@), rows[i]))])

\* lines 802-818.  failColumns: rows.Columns fails
extractRecordSet(rows, failColumns) ==
    IF failColumns
    THEN [calls |-> <<Call("rows.Columns", "", SqlError("columns"))>>,
          value |-> NilPtr, err |-> SqlError("columns")]
    ELSE scanRows(rows, 1, [calls |-> <<Call("rows.Columns", "", NoErr)>>,
                            value |-> Ptr(<<>>), err |-> NoErr])

\* filter.Render: the statement for aggregates grouped by fields
GroupedStatement(collection, groupBy, aggregates, flt) ==
    [select |-> aggregates, by |-> groupBy, from |-> collection.Name, where |-> flt.Spec]

\* lines 743-778, with extractRecordSet as resultFn
aggregateGrouped(collection, groupBy, aggregates, f, stage, rows, failColumns) ==
    LET flt == IF Len(f) = 0 THEN NewFilter("all") ELSE f[1]
        stmt == GroupedStatement(collection, groupBy, aggregates, flt)
        log1 == <<Call("Initialize", collection.Name,
                       IF stage = "initialize" THEN SqlError(stage) ELSE NoErr)>>
        log2 == Append(log1, Call("Render", collection.Name,
                       IF stage = "render" THEN SqlError(stage) ELSE NoErr))
        done == performQuery(stmt, stage, extractRecordSet(rows, failColumns))
    IN  IF stage = "initialize" THEN [calls |-> log1, value |-> NilPtr, err |-> SqlError(stage)]
        ELSE IF stage = "render" THEN [calls |-> log2, value |-> NilPtr, err |-> SqlError(stage)]
        ELSE [done EXCEPT !.calls = log2 \o @]

\* lines 730-741
aggregateFloat(collection, aggregation, field, f, stage, rows) ==
    LET r == aggregate(collection, aggregation, field, f, stage, rows)
    IN  IF r.err = NoErr THEN r ELSE [r EXCEPT !.value = 0]

\* lines 699-708: Count counts the identity field, or 1 if there is none
whatToCount(collection) ==
    IF collection.IdentityField = "" THEN "1" ELSE collection.IdentityField

\* the collections the aggregates are asked about: any identity field, or none
SqlCollections ==
    {[NewCollection(n) EXCEPT !.IdentityField = i] : n \in Names, i \in FieldNames \cup {""}}

\* lines 695-720: Sum, Count, Minimum, Maximum, Average
ScalarAggregate(opName, aggregation) ==
    /\ op = NoOp
    /\ \E collection \in SqlCollections, f \in SeqsUpTo(FindFilters, 1), stage \in Stages :
       \E field \in (IF opName = "Count" THEN {whatToCount(collection)} ELSE FieldNames) :
       \E rows \in (IF stage = "ok" THEN ResultSets ELSE {<<>>}) :
         LET r == aggregateFloat(collection, aggregation, field, f, stage, rows)
         IN  /\ op' = [name |-> opName, collection |-> collection, field |-> field,
                       f |-> f, stage |-> stage, rows |-> rows]
             /\ calls' = r.calls
             /\ ret' = [value |-> r.value, err |-> r.err]
             /\ UNCHANGED <<upserts, backend, model, registry, stored, resp>>

Sum == ScalarAggregate("Sum", "sum")
Count == ScalarAggregate("Count", "count")
Minimum == ScalarAggregate("Minimum", "min")
Maximum == ScalarAggregate("Maximum", "max")
Average == ScalarAggregate("Average", "avg")

\* the aggregates of a GroupBy
Aggregates == {<<[Aggregation |-> a, Field |-> fld]>> : a \in {"sum", "count"}, fld \in {"key"}}

\* lines 722-728
GroupBy ==
    /\ op = NoOp
    /\ \E collection \in SqlCollections, f \in SeqsUpTo(FindFilters, 1), stage \in Stages :
       \E groupBy \in SeqsUpTo({"id"}, 1), aggregates \in Aggregates :
       \E rows \in (IF stage = "ok" THEN ResultSets ELSE {<<>>}) :
       \E failColumns \in (IF stage = "ok" THEN BOOLEAN ELSE {FALSE}) :
         LET r == aggregateGrouped(collection, groupBy, aggregates, f, stage, rows,
                                   failColumns)
         IN  /\ op' = [name |-> "GroupBy", collection |-> collection, groupBy |-> groupBy,
                       f |-> f, stage |-> stage, rows |-> rows,
                       failColumns |-> failColumns]
             /\ calls' = r.calls
             /\ ret' = [value |-> IF r.err = NoErr THEN r.value ELSE NilPtr, err |-> r.err]
             /\ UNCHANGED <<upserts, backend, model, registry, stored, resp>>

----------------------------------------------------------------------------
(* POST /api/schema, DELETE /api/schema/:collection *)

\* dal.IsExistError
IsExistError(err) == err.kind = "exists"

\* the bodies of a POST /api/schema: one collection object, an array of
\* collections, an array of something else, other malformed JSON, or a body
\* that cannot be read
SchemaBodies ==
    [kind : {"object"}, names : {<<n>> : n \in Names}]
    \cup [kind : {"array"}, names : SeqsUpTo(Names, MaxPosted)]
    \cup [kind : {"bad_array", "malformed", "unreadable"}, names : {<<>>}]

RECURSIVE CreateAll(_, _, _, _)
\* lines 527-542: the loop over the collections, from the i-th on.  acc: the
\* registry, calls, responses and errors so far, and whether the handler has
\* returned; fails: the positions whose CreateCollection fails in the backend
CreateAll(names, fails, i, acc) ==
    IF i > Len(names) \/ acc.returned THEN acc
    ELSE LET collection == NewCollection(names[i])
             cr == CreateCollection(acc.reg, collection, i \in fails, collection)
             log == Append(acc.calls, Call("CreateCollection", collection, cr.err))
         IN  CreateAll(names, fails, i + 1,
                IF cr.err = NoErr
                THEN [acc EXCEPT !.reg = cr.reg, !.calls = log,
                                 !.resp = Append(@, RespondJSONStatus(Body(collection),
                                                                      StatusCreated))]
                ELSE IF Len(names) = 1
                THEN [acc EXCEPT !.calls = log, !.returned = TRUE,
                                 !.resp = Append(@, IF IsExistError(cr.err)
                                                    THEN RespondJSONStatus(cr.err, StatusConflict)
                                                    ELSE RespondJSON(cr.err))]
                ELSE [acc EXCEPT !.calls = log, !.errors = Append(@, cr.err)])

\* a variant of postSchemaRun that undoes the batch when one creation failed
postSchemaRunAllOrNothing(body, reg, fails) ==
    LET start == [reg |-> reg, calls |-> <<>>, resp |-> <<>>, errors |-> <<>>,
                  returned |-> FALSE]
        bad == RespondJSONStatus(Errorf("json", body.kind), StatusBadRequest)
    IN  IF body.kind \in {"unreadable", "bad_array"}
        THEN [start EXCEPT !.resp = <<bad>>, !.returned = TRUE]
        ELSE LET parsed == IF body.kind = "malformed"
                           THEN [start EXCEPT !.resp = <<bad>>]
                           ELSE start
                 done == CreateAll(body.names, fails, 1, parsed)
             IN  IF ~done.returned /\ Len(done.errors) > 0
                 THEN [done EXCEPT !.reg = reg, !.resp = Append(@,
                          RespondJSONStatus([kind |-> "errors", errors |-> done.errors],
                                            StatusBadRequest))]
                 ELSE done

\* lines 503-547
postSchemaRun(body, reg, fails) ==
    LET start == [reg |-> reg, calls |-> <<>>, resp |-> <<>>, errors |-> <<>>,
                  returned |-> FALSE]
        bad == RespondJSONStatus(Errorf("json", body.kind), StatusBadRequest)
    IN  IF body.kind \in {"unreadable", "bad_array"}
        THEN [start EXCEPT !.resp = <<bad>>, !.returned = TRUE]
        ELSE LET parsed == IF body.kind = "malformed"
                           THEN [start EXCEPT !.resp = <<bad>>]    \* line 518: no return
                           ELSE start
                 done == CreateAll(body.names, fails, 1, parsed)
             IN  IF ~done.returned /\ Len(done.errors) > 0
                 THEN [done EXCEPT !.resp = Append(@,
                          RespondJSONStatus([kind |-> "errors", errors |-> done.errors],
                                            StatusBadRequest))]
                 ELSE done

postSchema ==
    /\ op = NoOp
    /\ \E body \in SchemaBodies :
       \E fails \in SUBSET (1..Len(body.names)) :
         LET r == postSchemaRun(body, registry, fails)
         IN  /\ op' = [name |-> "postSchema", body |-> body, fails |-> fails]
             /\ registry' = r.reg
             /\ calls' = r.calls
             /\ resp' = r.resp
             /\ ret' = NoErr
             /\ UNCHANGED <<upserts, backend, model, stored>>

\* lines 562-571
deleteSchema ==
    /\ op = NoOp
    /\ \E name \in Names, fail \in BOOLEAN :
         LET r == DeleteCollection(registry, name, fail)
         IN  /\ op' = [name |-> "deleteSchema", collection |-> name]
             /\ registry' = r.reg
             /\ calls' = <<Call("DeleteCollection", name, r.err)>>
             /\ resp' = <<IF r.err = NoErr THEN RespondJSON(Body("null"))
                           ELSE RespondJSONStatus(r.err, StatusBadRequest)>>
             /\ ret' = NoErr
             /\ UNCHANGED <<upserts, backend, model, stored>>

----------------------------------------------------------------------------
(* GET /api/collections/:collection, GET /api/schema/:collection *)

\* the index, keys and joiner parameters of a request, in every combination;
\* a parameter given empty counts as not given
DescribeQueryStrings ==
    UNION {[names -> {"ix", "", "id,key", ":"}] : names \in SUBSET {"index", "keys", "joiner"}}

\* a variant of collectionAfterInject for an injectRequestParamsIntoCollection
\* that patches the collection it is given
collectionAfterInjectInPlace(qs, collection) ==
    Deref(injectRequestParamsIntoCollection(qs, collection))

\* lines 578-579: what the collection given to injectRequestParamsIntoCollection
\* is when it returns.  `c := *collection; collection = &c` rebinds the
\* parameter to the copy, so the assignments of lines 581-591 go to the copy;
\* the keys override assigns a new slice and writes no element of the old one
collectionAfterInject(qs, collection) == Deref(collection)

\* the handler of both routes; they differ in the status of a failed lookup.
\* The backend hands out the collection it has registered, so what the
\* handler does to it shows in the registry
describeRun(qs, reg, name, failGet, errStatus) ==
    LET g == GetCollection(reg, name, failGet)
        log == <<Call("GetCollection", name, g)>>
    IN  IF g.err = NoErr
        THEN [reg |-> [reg EXCEPT ![name] = Ptr(collectionAfterInject(qs, g.c))],
              calls |-> log,
              resp |-> <<RespondJSON(Body(Deref(injectRequestParamsIntoCollection(qs, g.c))))>>]
        ELSE [reg |-> reg, calls |-> log, resp |-> <<RespondJSONStatus(g.err, errStatus)>>]

describe(opName, errStatus) ==
    /\ op = NoOp
    /\ \E qs \in DescribeQueryStrings, name \in Names, failGet \in BOOLEAN :
         LET r == describeRun(qs, registry, name, failGet, errStatus)
         IN  /\ op' = [name |-> opName, collection |-> name, qs |-> qs,
                       found |-> GetCollection(registry, name, failGet).c]
             /\ registry' = r.reg
             /\ calls' = r.calls
             /\ resp' = r.resp
             /\ ret' = NoErr
             /\ UNCHANGED <<upserts, backend, model, stored>>

\* lines 149-161
getCollection == describe("getCollection", StatusNotFound)

\* lines 549-560
getSchema == describe("getSchema", StatusBadRequest)

----------------------------------------------------------------------------------------------------------------------------------------
(* Model.CreateOrUpdate and POST /api/collections/:collection/records/:id,   *)
(* called concurrently.  Each is two backend calls, Exists and then Insert   *)
(* or Update, with no lock around them: other callers' steps come between.   *)

\* the goroutines that upsert
Callers == {1, 2}

\* an upsert that has not begun
Idle ==
    [pc |-> "idle", name |-> "none", id |-> NilValue, in |-> <<>>, exists |-> FALSE,
     before |-> {}, calls |-> <<>>, ret |-> NoErr, resp |-> <<>>]

NoUpserts == [p \in Callers |-> Idle]

\* what CreateOrUpdate is given to save: a struct whose ID field has a value
\* or is nil, or something that is not a pointer to a struct
UpsertInputs ==
    {[shape |-> "ptr_struct",
      st |-> [n \in {"ID"} |-> [tag |-> NoTag, identity |-> FALSE, omitEmpty |-> FALSE,
                                value |-> v]]] : v \in Values}
    \cup {[shape |-> "nil", st |-> <<>>]}

\* line 130: `id == nil || !self.Exists(id)`; Exists is not called for a nil id
CreateOrUpdateCheck(p) ==
    /\ op = NoOp
    /\ upserts[p].pc = "idle"
    /\ \E id \in Values, in \in UpsertInputs :
         LET exists == id # NilValue /\ Exists(stored, id)
         IN  upserts' = [upserts EXCEPT ![p] =
                [Idle EXCEPT !.pc = "checked", !.name = "CreateOrUpdate", !.id = id,
                             !.in = in, !.exists = exists, !.before = stored,
                             !.calls = IF id = NilValue THEN <<>>
                                       ELSE <<Call("Exists", id, [exists |-> exists])>>]]
    /\ UNCHANGED <<backend, model, registry, stored, op, calls, ret, resp>>

\* a variant of upsertMethod that updates whenever an id is given
upsertMethodById(id, exists) == IF id = NilValue THEN "Insert" ELSE "Update"

\* lines 130-134: Create if id is nil or does not exist, else Update
upsertMethod(id, exists) == IF id = NilValue \/ ~exists THEN "Insert" ELSE "Update"

\* lines 131 and 133: self.Create(from) or self.Update(from), with what Exists
\* answered at line 130
CreateOrUpdateWrite(p) ==
    /\ op = NoOp
    /\ upserts[p].pc = "checked"
    /\ upserts[p].name = "CreateOrUpdate"
    /\ \E order \in Orders(upserts[p].in) :
         LET u == upserts[p]
             made == MakeRecord(model, u.in, order, FALSE)
         IN  \E fail \in (IF made.err = NoErr THEN BOOLEAN ELSE {FALSE}) :
               LET r == ModelSave(upsertMethod(u.id, u.exists), stored, made, fail)
               IN  /\ upserts' = [upserts EXCEPT ![p] =
                          [u EXCEPT !.pc = "done", !.calls = @ \o r.calls, !.ret = r.ret]]
                   /\ stored' = r.stored
    /\ UNCHANGED <<backend, model, registry, op, calls, ret, resp>>

\* server.go lines 387-394: the record is parsed from the body and
\* self.backend.Exists(name, record.ID) is asked
postRecordCheck(p) ==
    /\ op = NoOp
    /\ upserts[p].pc = "idle"
    /\ \E parses \in BOOLEAN :
       \E id \in (IF parses THEN Values ELSE {NilValue}) :
         upserts' = [upserts EXCEPT ![p] =
            IF parses
            THEN [Idle EXCEPT !.pc = "checked", !.name = "postRecord", !.id = id,
                              !.exists = Exists(stored, id), !.before = stored,
                              !.calls = <<Call("Exists", id, [exists |-> Exists(stored, id)])>>]
            ELSE [Idle EXCEPT !.pc = "done", !.name = "postRecord", !.before = stored,
                              !.resp = <<RespondJSONStatus(Errorf("parse", "body"),
                                                           StatusBadRequest)>>]]
    /\ UNCHANGED <<backend, model, registry, stored, op, calls, ret, resp>>

\* server.go lines 394-404: Update if Exists answered true, else Insert, and
\* the answer
postRecordWrite(p) ==
    /\ op = NoOp
    /\ upserts[p].pc = "checked"
    /\ upserts[p].name = "postRecord"
    /\ \E fail \in BOOLEAN :
         LET u == upserts[p]
             record == Ptr([NewRecord EXCEPT !.ID = u.id])
             method == IF u.exists THEN "Update" ELSE "Insert"
             w == BackendWrite(method, stored, record, fail)
         IN  /\ upserts' = [upserts EXCEPT ![p] =
                    [u EXCEPT !.pc = "done",
                              !.calls = Append(@, Call(method, record, w.err)),
                              !.resp = <<IF w.err = NoErr THEN RespondJSON(Body(record))
                                         ELSE RespondJSON(w.err)>>]]
             /\ stored' = w.stored
    /\ UNCHANGED <<backend, model, registry, op, calls, ret, resp>>

\* every caller has its result; the next upserts may begin
UpsertsReturn ==
    /\ \E p \in Callers : upserts[p].pc = "done"
    /\ \A p \in Callers : upserts[p].pc \in {"idle", "done"}
    /\ upserts' = NoUpserts
    /\ UNCHANGED <<backend, model, registry, stored, op, calls, ret, resp>>

CreateOrUpdate == \E p \in Callers : CreateOrUpdateCheck(p) \/ CreateOrUpdateWrite(p)

postRecord == \E p \in Callers : postRecordCheck(p) \/ postRecordWrite(p)

----------------
\* NewModel: the Model holds the collection it was given
Init ==
    /\ backend = "*backends.SqlBackend"
    /\ model \in {c \in Collections : c.Name = ModelName}
    /\ registry = [n \in Names |-> NilPtr]
    /\ stored = {}
    /\ op = NoOp
    /\ calls = <<>>
    /\ ret = NoErr
    /\ resp = <<>>
    /\ upserts = NoUpserts

\* the caller takes the result of the operation; the next one may start
Finish ==
    /\ op # NoOp
    /\ op' = NoOp
    /\ calls' = <<>>
    /\ ret' = NoErr
    /\ resp' = <<>>
    /\ UNCHANGED <<upserts, backend, model, registry, stored>>

\* ListenAndServe: the server connects to a backend of some type; no collection
\* is registered yet
InitServer ==
    /\ backend \in BackendTypes
    /\ model = NewCollection(ModelName)
    /\ registry = [n \in Names |-> NilPtr]
    /\ stored = {}
    /\ op = NoOp
    /\ calls = <<>>
    /\ ret = NoErr
    /\ resp = <<>>
    /\ upserts = NoUpserts

\* a Model for the collection named ModelName and a server, on one backend
\* that holds no record yet
InitUpsert ==
    /\ backend = "*backends.SqlBackend"
    /\ model = NewCollection(ModelName)
    /\ registry = [n \in Names |-> NilPtr]
    /\ stored = {}
    /\ op = NoOp
    /\ calls = <<>>
    /\ ret = NoErr
    /\ resp = <<>>
    /\ upserts = NoUpserts

\* a SqlBackend, connected
InitSql ==
    /\ backend = "*backends.SqlBackend"
    /\ model = NewCollection(ModelName)
    /\ registry = [n \in Names |-> NilPtr]
    /\ stored = {}
    /\ op = NoOp
    /\ calls = <<>>
    /\ ret = NoErr
    /\ resp = <<>>
    /\ upserts = NoUpserts

NextSql == Sum \/ Count \/ Minimum \/ Maximum \/ Average \/ GroupBy \/ Finish

SpecSql == InitSql /\ [][NextSql]_vars

NextMigrate == Migrate \/ Drop \/ Finish

SpecMigrate == Init /\ [][NextMigrate]_vars

NextServer ==
    queryHandler \/ aggregateHandler \/ listHandler \/ Find \/ postSchema \/ deleteSchema
    \/ getCollection \/ getSchema \/ Finish

SpecServer == InitServer /\ [][NextServer]_vars

NextUpsert == CreateOrUpdate \/ postRecord \/ UpsertsReturn

SpecUpsert == InitUpsert /\ [][NextUpsert]_vars

NextMapper == MakeRecordCall \/ Create \/ ModelUpdate \/ Finish

SpecMapper == Init /\ [][NextMapper]_vars

----------------------------------------------------------------------------
(* Model.Migrate: claims *)

MigrateRan == op.name = "Migrate"

\* C1 (as claimed): when the first GetCollection of Migrate fails with an error
\* other than collection-not-found, Migrate returns that same error: it calls
\* neither CreateCollection nor Diff and does not return nil.
C1_LookupErrorReturned ==
    (MigrateRan /\ op.first.err # NoErr /\ ~IsCollectionNotFoundErr(op.first.err)) =>
        /\ ret = op.first.err
        /\ CallsTo(calls, "CreateCollection") = {}
        /\ CallsTo(calls, "Diff") = {}
        /\ ret # NoErr

\* C2: when the first GetCollection of Migrate reports collection-not-found,
\* CreateCollection is called exactly once, right after it and with the desired
\* collection; when the creation succeeds GetCollection is called a second time,
\* and whenever Diff is then called its actual side is the collection that
\* second lookup returned.  When the first lookup does not report
\* collection-not-found, CreateCollection is never called.
C2_CreateThenRefetch ==
    MigrateRan =>
        IF IsCollectionNotFoundErr(op.first.err)
        THEN /\ CallsTo(calls, "CreateCollection") = {2}
             /\ calls[2].arg = model
             /\ (calls[2].out = NoErr) =>
                    /\ Len(calls) >= 3
                    /\ calls[3].call = "GetCollection"
                    /\ calls[3].arg = model.Name
             /\ (calls[2].out # NoErr) => Len(calls) = 2
             /\ \A i \in CallsTo(calls, "Diff") :
                    /\ i = 4
                    /\ calls[3].out.err = NoErr
                    /\ calls[i].arg = calls[3].out.c
        ELSE CallsTo(calls, "CreateCollection") = {}

\* C2 witness: Migrate created the collection, fetched it again, and the
\* collection it diffed against is not the desired one
C2_Witness ==
    /\ MigrateRan
    /\ IsCollectionNotFoundErr(op.first.err)
    /\ Len(calls) = 4
    /\ calls[4].call = "Diff"
    /\ calls[4].arg # Ptr(model)
    /\ calls[4].arg = calls[3].out.c

\* C3: Migrate is fail-closed: it returns nil only if Diff was computed and is
\* empty; a non-empty diff yields an error that carries every delta; and once
\* Diff has been computed Migrate makes no further call (no CreateCollection,
\* DeleteCollection or Migratable.Migrate).
C3_FailClosed ==
    MigrateRan =>
        /\ (ret = NoErr) =>
                \E i \in CallsTo(calls, "Diff") :
                    ~calls[i].out.panic /\ calls[i].out.diffs = <<>>
        /\ \A i \in CallsTo(calls, "Diff") :
                /\ i = Len(calls)
                /\ (~calls[i].out.panic /\ calls[i].out.diffs # <<>>) =>
                        /\ ret.kind = "schema_differs"
                        /\ ret.deltas = calls[i].out.diffs

\* C3 witness: Migrate found two deltas and returned the error listing both
C3_Witness ==
    /\ MigrateRan
    /\ ret.kind = "schema_differs"
    /\ Len(ret.deltas) = 2
    /\ calls[Len(calls)].call = "Diff"

----------------------------------------------------------------------------
(* Collection.MakeRecord, Model.Create, Model.Update: claims *)

\* MakeRecord ran on its own and returned a record
MadeRecord == op.name = "MakeRecord" /\ ret.err = NoErr

\* the Go names of the fields of the input with a given property
ExplicitIdentity == {n \in DOMAIN op.in.st : op.in.st[n].identity}
TaggedAs(t) == {n \in DOMAIN op.in.st : op.in.st[n].tag = t}
Tagged == {n \in DOMAIN op.in.st : op.in.st[n].tag # NoTag}
SkippedEmpty == {n \in DOMAIN op.in.st : op.in.st[n].omitEmpty /\ IsZeroValue(op.in.st[n].value)}

\* Record.ID is the value of one of the candidate fields, or the candidates
\* were skipped as omit-if-empty and Record.ID was left nil
Supplies(rec, candidates) ==
    \/ \E n \in candidates : rec.ID = op.in.st[n].value
    \/ candidates \subseteq SkippedEmpty /\ rec.ID = NilValue

\* C4 (as claimed): Record.ID is resolved by strict precedence, first match
\* wins: the explicitly annotated identity field, else the field tagged with
\* collection.IdentityField, else the struct field named "ID"; in particular
\* an input with both an explicitly annotated identity field and a field named
\* "ID" gets the value of the explicitly annotated field.
C4_IdentityPrecedence ==
    MadeRecord =>
        LET rec == Deref(ret.record)
            st == op.in.st
        IN  IF ExplicitIdentity # {}
            THEN Supplies(rec, ExplicitIdentity)
            ELSE IF TaggedAs(model.IdentityField) # {}
            THEN Supplies(rec, TaggedAs(model.IdentityField))
            ELSE IF "ID" \in DOMAIN st
            THEN Supplies(rec, {"ID"})
            ELSE rec.ID = NilValue

\* C5 (as claimed): whichever rule supplied Record.ID, Record.Fields contains
\* neither the key (tag name) of the field chosen as the identity nor the key
\* collection.IdentityField.
C5_IdentityNotInFields ==
    (MadeRecord /\ Deref(ret.record).idFrom # "") =>
        LET rec == Deref(ret.record)
        IN  /\ op.in.st[rec.idFrom].tag \notin DOMAIN rec.Fields
            /\ model.IdentityField \notin DOMAIN rec.Fields

\* C6 (as claimed): a tagged field (other than the identity) is in Record.Fields
\* under its tag name exactly when the tag name is declared in
\* collection.Fields and the field is not skipped as omit-if-empty with a zero
\* value; an undeclared tag name never appears in Record.Fields; and a field
\* skipped as omit-if-empty contributes neither to Fields nor to ID.
C6_CopiedExactlyWhenDeclared ==
    MadeRecord =>
        LET rec == Deref(ret.record)
            st == op.in.st
        IN  /\ \A n \in Tagged \ (ExplicitIdentity \cup {rec.idFrom}) :
                    (st[n].tag \in DOMAIN rec.Fields) <=>
                        (st[n].tag \in actualFieldNames(model) /\ n \notin SkippedEmpty)
            /\ \A t \in DOMAIN rec.Fields :
                    /\ t \in actualFieldNames(model)
                    /\ \E n \in TaggedAs(t) : rec.Fields[t] = st[n].value
            /\ \A n \in SkippedEmpty :
                    /\ st[n].tag \notin DOMAIN rec.Fields
                    /\ rec.idFrom # n

\* C7: when the input is not a pointer to a struct, MakeRecord returns an error
\* and no record, and Model.Create and Model.Update return that error without
\* calling the backend's Insert or Update.
C7_InvalidInputRejected ==
    /\ (op.name = "MakeRecord" /\ op.in.shape # "ptr_struct") =>
            /\ ret.err = InvalidInput(op.in.shape)
            /\ ret.record = NilPtr
    /\ (op.name \in {"Create", "Update"} /\ op.in.shape # "ptr_struct") =>
            /\ op.made.err = InvalidInput(op.in.shape)
            /\ op.made.record = NilPtr
            /\ ret = op.made.err
            /\ calls = <<>>
            /\ stored \in {{}} \cup SUBSET Values

\* C7 witness: Model.Update was handed a struct by value and returned the
\* invalid-input error
C7_Witness ==
    /\ op.name = "Update"
    /\ op.in.shape = "struct"
    /\ ret.kind = "invalid_input"
    /\ calls = <<>>

----------------------------------------------------------------------------
(* The query, aggregate and list handlers, Model.Find: claims *)

\* C8: a query request whose collection path segment names more than two
\* ':'-separated collections is answered with the bad-request error about
\* joins, whatever its query is, and no backend call is made for it (no
\* GetCollection, WithSearch or Query).
C8_JoinOfMoreThanTwoRejected ==
    (op.name = "queryHandler" /\ Len(op.req.collections) > 2) =>
        /\ calls = <<>>
        /\ Len(resp) = 1
        /\ resp[1].status = StatusBadRequest
        /\ resp[1].body.kind = "Only two (2) joined collections are supported"

\* C8 witness: three registered collections were named, with a query that
\* parses, and the request was refused
C8_Witness ==
    /\ op.name = "queryHandler"
    /\ Len(op.req.collections) = 3
    /\ \A i \in 1..3 : op.req.collections[i] \in Names /\ registry[op.req.collections[i]] # NilPtr
    /\ op.req.urlquery = "all"
    /\ resp[1].status = StatusBadRequest
    /\ calls = <<>>

\* the capability lookups of the last operation that returned nil
Absent(capability) == {i \in CallsTo(calls, capability) : calls[i].out = NilPtr}

\* C9: when the backend does not provide the capability asked for
\* (WithAggregator returns nil in the aggregate handler, WithSearch returns nil
\* in the query and list handlers and in Model.Find), the operation ends with
\* the unsupported-operation error naming the backend's concrete type, and no
\* Count/Sum/Minimum/Maximum/Average, Query or ListValues call is made.
C9_CapabilityAbsence ==
    LET work == UNION {CallsTo(calls, m) : m \in AggregatorMethods \cup {"Query", "ListValues"}}
    IN  /\ (op.name = "aggregate" /\ Absent("WithAggregator") # {}) =>
                /\ work = {}
                /\ Len(resp) = 1
                /\ resp[1].body = Unsupported(backend, "aggregations")
        /\ (op.name \in {"queryHandler", "list"} /\ Absent("WithSearch") # {}) =>
                /\ work = {}
                /\ Len(resp) = 1
                /\ resp[1].body = Unsupported(backend, "complex queries")
        /\ (op.name = "Find" /\ Absent("WithSearch") # {}) =>
                /\ work = {}
                /\ ret = Unsupported(backend, "searching")

\* C9 witness: an aggregate request for a registered collection on a
\* filesystem backend, which has no aggregator
C9_Witness ==
    /\ op.name = "aggregate"
    /\ backend = "*backends.FilesystemBackend"
    /\ Absent("WithAggregator") # {}
    /\ resp[1].body.kind = "unsupported"
    /\ resp[1].body.backend = backend

----------------------------------------------------------------------------
(* SqlBackend aggregates: claims *)

ScalarAggregateRan == op.name \in AggregatorMethods

\* C10: every scalar aggregate of SqlBackend returns 0 with a nil error when
\* the executed statement yields no row, or a first row whose cell is SQL NULL;
\* it returns an error only when building the statement (generator
\* initialisation, rendering), executing it or scanning the first row fails,
\* and then with the value 0.
C10_NullSafeAggregates ==
    ScalarAggregateRan =>
        /\ (op.stage = "ok" /\ (op.rows = <<>> \/ op.rows[1] = NullCell)) =>
                ret = [value |-> 0, err |-> NoErr]
        /\ (ret.err # NoErr) =>
                /\ ret.value = 0
                /\ \/ op.stage # "ok"
                   \/ Len(op.rows) > 0 /\ op.rows[1] = TextCell

\* C10 witness: a Sum whose statement was executed and yielded no row
C10_Witness ==
    /\ op.name = "Sum"
    /\ op.stage = "ok"
    /\ op.rows = <<>>
    /\ CallsTo(calls, "db.Query") # {}
    /\ ret = [value |-> 0, err |-> NoErr]

\* the calls of db.Query that opened a cursor
Opened == {i \in CallsTo(calls, "db.Query") : calls[i].out = NoErr}

\* C11: in SqlBackend.aggregate every cursor that db.Query opened is closed by
\* the time aggregate returns (exactly once, after the last use of the rows),
\* whether the result function succeeds or fails, and each aggregate call
\* executes at most one statement.
C11_CursorClosedOneStatement ==
    (op.name \in AggregatorMethods \cup {"GroupBy"}) =>
        /\ Cardinality(CallsTo(calls, "db.Query")) <= 1
        /\ \A i \in Opened :
              /\ Cardinality({j \in CallsTo(calls, "rows.Close") : j > i}) = 1
              /\ calls[Len(calls)].call = "rows.Close"
        /\ (Opened = {}) => CallsTo(calls, "rows.Close") = {}

\* C11 witness: a GroupBy whose second row does not scan: extractRecordSet
\* returns the error and the cursor is closed
C11_Witness ==
    /\ op.name = "GroupBy"
    /\ Len(op.rows) = 2
    /\ op.rows[2] = TextCell
    /\ ret.err = SqlError("scan")
    /\ Opened # {}
    /\ calls[Len(calls)].call = "rows.Close"

----------------------------------------------------------------------------
(* POST /api/schema: claims *)

\* the positions of the posted collections whose CreateCollection failed
FailedCreates == {i \in 1..Len(calls) : calls[i].out # NoErr}

RECURSIVE ErrorsOf(_, _)
\* the errors of the calls of a log from the i-th on, in order
ErrorsOf(log, i) ==
    IF i > Len(log) THEN <<>>
    ELSE IF log[i].out # NoErr THEN <<log[i].out>> \o ErrorsOf(log, i + 1)
    ELSE ErrorsOf(log, i + 1)

----------------------------------------------------------------------------
(* injectRequestParamsIntoCollection: claims *)

\* the value of a request parameter that overrides, or none
Override(qs, key) == IF key \in DOMAIN qs /\ qs[key] # "" THEN <<qs[key]>> ELSE <<>>

----------------------------------------------------------------------------
(* Collection lookups at the HTTP boundary: claims *)

\* the lookups of the last request that ended in a collection-not-found error
LookupsNotFound ==
    {i \in CallsTo(calls, "GetCollection") : IsCollectionNotFoundErr(calls[i].out.err)}

\* C14: in every handler that looks a collection up (GET collection, query
\* with the right-hand collection of a join, aggregate, list, GET schema), a
\* collection-not-found error from GetCollection is answered with the
\* not-found status.
C14_NotFoundIsAnswered404 ==
    (op.name \in {"getCollection", "getSchema", "queryHandler", "aggregate", "list"}
        /\ LookupsNotFound # {}) =>
            /\ Len(resp) = 1
            /\ resp[1].status = StatusNotFound

----------------------------------------------------------------------------
(* filterFromRequest: claims *)

\* the filters the last request handed to the backend
FiltersUsed == {Deref(calls[i].arg.f) : i \in CallsTo(calls, "Query") \cup CallsTo(calls, "ListValues")}

\* the limit the handler of the last request passes to filterFromRequest
CallerDefaultLimit == IF op.name = "queryHandler" THEN DefaultResultLimit ELSE 0

\* C15: a filter that filterFromRequest returned has a limit <= 0 (unbounded)
\* only when the query was the literal `all`; for every other query the limit
\* is the request's explicit positive limit parameter, or else the default the
\* caller set.
C15_UnboundedOnlyForAll ==
    (op.name \in {"queryHandler", "list"}) =>
        \A f \in FiltersUsed :
            /\ (f.Limit <= 0) => f.Spec = "all"
            /\ (f.Spec # "all") =>
                    f.Limit = IF QInt(op.req.qs, "limit", 0) > 0
                              THEN QInt(op.req.qs, "limit", 0)
                              ELSE CallerDefaultLimit

----------------------------------------------------------------------------
(* Upserts: claims *)

\* the writes a caller's upsert has issued
Writes(u) == {i \in 1..Len(u.calls) : u.calls[i].call \in {"Insert", "Update"}}

\* what Exists answered a caller, if it was asked
Asked(u) == {u.calls[i].out.exists : i \in CallsTo(u.calls, "Exists")}

\* MakeRecord made a record of what the caller gave
Made(u) == validatePtrToStructType(u.in.shape) = NoErr

\* C16: a CreateOrUpdate that has returned, and whose MakeRecord succeeded,
\* issued exactly one backend write: an Insert, without asking Exists, if id is
\* nil; an Insert if Exists(id) answered false; an Update if it answered true.
\* It never issues both, and no Update for an id reported absent.
C16_OneWritePerUpsert ==
    \A p \in Callers :
        LET u == upserts[p]
        IN  (u.name = "CreateOrUpdate" /\ u.pc = "done" /\ Made(u)) =>
                /\ Cardinality(Writes(u)) = 1
                /\ Cardinality(CallsTo(u.calls, "Exists")) = IF u.id = NilValue THEN 0 ELSE 1
                /\ \A i \in Writes(u) :
                      u.calls[i].call = IF u.id = NilValue \/ Asked(u) = {FALSE}
                                        THEN "Insert" ELSE "Update"
                /\ (Asked(u) = {TRUE}) = (\E i \in Writes(u) : u.calls[i].call = "Update")

\* C16 witness: one call with a nil id inserted without asking, and another
\* whose id exists updated
C16_Witness ==
    \E p, q \in Callers :
        /\ upserts[p].name = "CreateOrUpdate" /\ upserts[p].pc = "done" /\ Made(upserts[p])
        /\ upserts[p].id = NilValue
        /\ Len(upserts[p].calls) = 1 /\ upserts[p].calls[1].call = "Insert"
        /\ upserts[q].name = "CreateOrUpdate" /\ upserts[q].pc = "done" /\ Made(upserts[q])
        /\ Asked(upserts[q]) = {TRUE}
        /\ Len(upserts[q].calls) = 2 /\ upserts[q].calls[2].call = "Update"

\* the kinds of write a caller issued for the record with the given id
WritesOf(u, id) ==
    {u.calls[i].call : i \in {j \in Writes(u) : u.calls[j].arg # NilPtr
                                                 /\ Deref(u.calls[j].arg).ID = id}}

\* no call of the caller was failed by the backend itself
Unfailed(u) == \A i \in 1..Len(u.calls) : u.calls[i].out # BackendFailure(u.calls[i].call)

\* C17: when two upserts of the same non-nil id, absent before either began,
\* run concurrently (Model.CreateOrUpdate or the POST records/:id handler, the
\* backend failing neither), one of them issues Insert for that id and the
\* other Update: no other caller's write comes between a caller's Exists and
\* its write.
C17_ConcurrentUpsertsInsertOnce ==
    \A p, q \in Callers :
        LET u == upserts[p]
            v == upserts[q]
        IN  (/\ p # q
             /\ u.pc = "done" /\ v.pc = "done"
             /\ u.id # NilValue /\ u.id = v.id
             /\ u.id \notin (u.before \cap v.before)
             /\ Unfailed(u) /\ Unfailed(v)
             /\ WritesOf(u, u.id) # {} /\ WritesOf(v, v.id) # {})
            => WritesOf(u, u.id) \cup WritesOf(v, v.id) = {"Insert", "Update"}

----------------------------------------------------------------------------
(* POST /api/schema: responses *)

\* C18: the POST /api/schema handler writes exactly one response per request,
\* whatever the body (one collection, an array of none, one or several,
\* something malformed) and whichever CreateCollection calls fail.
C18_OneResponsePerSchemaPost ==
    (op.name = "postSchema") => Len(resp) = 1

----------------------------------------------------------------------------
(* Collection.MakeRecord: determinism *)

\* C19: for a fixed collection and input struct, the Record.ID and
\* Record.Fields that MakeRecord returned are what it returns under every
\* other order in which the map of tag names may be iterated, also with
\* several fields annotated as identity, or with an identity-annotated field
\* next to one tagged collection.IdentityField.
C19_MakeRecordDeterministic ==
    MadeRecord =>
        \A order \in Orders(op.in) :
            LET other == MakeRecord(model, op.in, order, FALSE)
            IN  /\ other.err = NoErr
                /\ Deref(other.record).ID = Deref(ret.record).ID
                /\ Deref(other.record).Fields = Deref(ret.record).Fields

====
